---- MODULE Spec2Model ----
(***************************************************************************)
(* Model of the natural-language-to-SQL service: NLUProcessor              *)
(* (src/src/agent/nlu_processor.py), the part of PostgresManager the text  *)
(* handler uses (src/src/database/postgres_manager.py) and the text-query  *)
(* handler (src/main.py).                                                  *)
(*                                                                         *)
(* Python strings are TLA+ strings; a character is a string of length 1.   *)
(* A Python dict is a function; a missing attribute of an object is the    *)
(* value "unset"; None is the value "None".                                *)
(***************************************************************************)
EXTENDS Integers, Sequences, FiniteSets, TLC

(***************************************************************************)
(* Characters and the str / re primitives the code uses.                   *)
(***************************************************************************)
UpperAlpha == "ABCDEFGHIJKLMNOPQRSTUVWXYZ"
LowerAlpha == "abcdefghijklmnopqrstuvwxyz"
Digits == "0123456789"

Ch(s, i) == SubSeq(s, i, i)

CharsOf(s) == {Ch(s, i) : i \in 1..Len(s)}

IndexIn(c, s) == CHOOSE i \in 1..Len(s) : Ch(s, i) = c

\* \s of the re module, and the characters str.strip() removes
IsSpace(c) == c \in {" ", "\t", "\n", "\r", "\f"}

\* \d of the re module
IsDigit(c) == c \in CharsOf(Digits)

\* \w of the re module
IsWord(c) == c \in CharsOf(UpperAlpha) \cup CharsOf(LowerAlpha) \cup CharsOf(Digits) \cup {"_"}

LowerChar(c) == IF c \in CharsOf(UpperAlpha) THEN Ch(LowerAlpha, IndexIn(c, UpperAlpha)) ELSE c

RECURSIVE ToLower(_)
\* str.lower()
ToLower(s) == IF s = "" THEN "" ELSE LowerChar(Head(s)) \o ToLower(Tail(s))

\* str.startswith(p)
StartsWith(s, p) == Len(s) >= Len(p) /\ SubSeq(s, 1, Len(p)) = p

\* the literal p occurs in s at position i
LitAt(s, p, i) == i >= 1 /\ i + Len(p) - 1 <= Len(s) /\ SubSeq(s, i, i + Len(p) - 1) = p

\* re.search(p, s) is not None, for a pattern p without metacharacters
Contains(s, p) == \E i \in 1..(Len(s) + 1) : LitAt(s, p, i)

RECURSIVE SkipWhile(_, _, _)
\* the first position >= i of s whose character is outside the class, Len(s)+1 if none;
\* class is "space", "word" or "digit": how a greedy \s+, \w+ or \d+ advances
SkipWhile(s, i, class) ==
    IF i > Len(s) THEN i
    ELSE IF \/ class = "space" /\ IsSpace(Ch(s, i))
            \/ class = "word" /\ IsWord(Ch(s, i))
            \/ class = "digit" /\ IsDigit(Ch(s, i))
         THEN SkipWhile(s, i + 1, class)
         ELSE i

\* str.strip()
LStrip(s) == SubSeq(s, SkipWhile(s, 1, "space"), Len(s))

RECURSIVE RStrip(_)
RStrip(s) == IF s # "" /\ IsSpace(Ch(s, Len(s))) THEN RStrip(SubSeq(s, 1, Len(s) - 1)) ELSE s

Strip(s) == RStrip(LStrip(s))

RECURSIVE ParseInt(_)
\* int(s) for a string of decimal digits
ParseInt(s) ==
    IF s = "" THEN 0
    ELSE 10 * ParseInt(SubSeq(s, 1, Len(s) - 1)) + (IndexIn(Ch(s, Len(s)), Digits) - 1)

RECURSIVE FormatInt(_)
\* str(n), as an f-string renders a non-negative int
FormatInt(n) ==
    IF n < 10 THEN Ch(Digits, n + 1)
    ELSE FormatInt(n \div 10) \o Ch(Digits, (n % 10) + 1)

(***************************************************************************)
(* Python dicts.                                                           *)
(***************************************************************************)
EmptyDict == [k \in {} |-> ""]

DictPut(d, key, val) == [k \in (DOMAIN d) \cup {key} |-> IF k = key THEN val ELSE d[k]]

\* dict.get(key, default)
DictGet(d, key, default) == IF key \in DOMAIN d THEN d[key] ELSE default

\* the least element of a non-empty set of integers: the leftmost match, the first
\* entry of an ordered dict or list that a for-loop with break stops at
Min(S) == CHOOSE i \in S : \A j \in S : i <= j

(***************************************************************************)
(* NLUProcessor.__init__: the templates and the ordered pattern tables.    *)
(***************************************************************************)
\* self.sql_templates["select"].format(columns, table, where, order_by, limit)
FormatSelect(columns, table, where, order_by, limit) ==
    "SELECT " \o columns \o " FROM " \o table \o " " \o where \o " " \o order_by \o " " \o limit

\* self.sql_templates["count"].format(table, where)
FormatCount(table, where) == "SELECT COUNT(*) FROM " \o table \o " " \o where

\* self.intent_patterns, in the insertion order a dict iterates in
intent_patterns ==
    << [intent |-> "select_data",
        patterns |-> <<"show me", "display", "get", "find", "list", "what", "how many",
                       "select", "retrieve", "fetch", "see", "view">>],
       [intent |-> "count_data",
        patterns |-> <<"count", "how many", "total number", "number of">>],
       [intent |-> "insert_data",
        patterns |-> <<"add", "insert", "create", "new", "add new">>],
       [intent |-> "update_data",
        patterns |-> <<"update", "modify", "change", "edit", "set">>],
       [intent |-> "delete_data",
        patterns |-> <<"delete", "remove", "drop", "clear">> ] >>

\* table_patterns of _extract_entities: the keyword of each r"<kw>\s+(\w+)"
table_patterns == <<"from", "table", "in">>

\* time_patterns of _extract_entities, in insertion order; the parts of a pattern
\* are the literals that \s+ separates
time_patterns ==
    << [key |-> "last_week", parts |-> <<"last", "week">>],
       [key |-> "last_month", parts |-> <<"last", "month">>],
       [key |-> "yesterday", parts |-> <<"yesterday">>],
       [key |-> "today", parts |-> <<"today">>],
       [key |-> "this_week", parts |-> <<"this", "week">>],
       [key |-> "this_month", parts |-> <<"this", "month">>] >>

(***************************************************************************)
(* NLUProcessor._extract_entities                                          *)
(***************************************************************************)
\* the start positions at which r"<kw>\s+(\w+)" matches s
KeywordWordHits(s, kw) ==
    {i \in 1..Len(s) :
        /\ LitAt(s, kw, i)
        /\ LET j == SkipWhile(s, i + Len(kw), "space")
           IN  j > i + Len(kw) /\ j <= Len(s) /\ IsWord(Ch(s, j))}

\* re.search(r"<kw>\s+(\w+)", s).group(1): the word after the leftmost match
KeywordWordGroup(s, kw) ==
    LET i == Min(KeywordWordHits(s, kw))
        j == SkipWhile(s, i + Len(kw), "space")
    IN  SubSeq(s, j, SkipWhile(s, j, "word") - 1)

\* re.search(pattern, s) is not None for a time pattern
TimePatternMatches(s, parts) ==
    IF Len(parts) = 1 THEN Contains(s, parts[1])
    ELSE \E i \in 1..Len(s) :
            /\ LitAt(s, parts[1], i)
            /\ LET j == SkipWhile(s, i + Len(parts[1]), "space")
               IN  j > i + Len(parts[1]) /\ LitAt(s, parts[2], j)

\* re.search(r"(\d+)", s).group(1), or "" when there is no match
FirstNumberGroup(s) ==
    LET hits == {i \in 1..Len(s) : IsDigit(Ch(s, i))}
    IN  IF hits = {} THEN ""
        ELSE SubSeq(s, Min(hits), SkipWhile(s, Min(hits), "digit") - 1)

\* _extract_entities taking as table the match that starts leftmost in the text,
\* whichever pattern it belongs to: the fault C16 excludes
ExtractEntitiesLeftmost(text) ==
    LET text_lower == ToLower(text)
        tableHits == {k \in 1..Len(table_patterns) :
                         KeywordWordHits(text_lower, table_patterns[k]) # {}}
        first == CHOOSE k \in tableHits :
                    \A j \in tableHits :
                        Min(KeywordWordHits(text_lower, table_patterns[k]))
                           <= Min(KeywordWordHits(text_lower, table_patterns[j]))
        e1 == IF tableHits = {} THEN EmptyDict
              ELSE DictPut(EmptyDict, "table",
                           KeywordWordGroup(text_lower, table_patterns[first]))
        timeHits == {k \in 1..Len(time_patterns) :
                        TimePatternMatches(text_lower, time_patterns[k].parts)}
        e2 == IF timeHits = {} THEN e1
              ELSE DictPut(e1, "time_period", time_patterns[Min(timeHits)].key)
        number == FirstNumberGroup(text)
    IN  IF number = "" THEN e2 ELSE DictPut(e2, "number", ParseInt(number))

\* _extract_entities(text)
ExtractEntities(text) ==
    LET text_lower == ToLower(text)
        tableHits == {k \in 1..Len(table_patterns) :
                         KeywordWordHits(text_lower, table_patterns[k]) # {}}
        e1 == IF tableHits = {} THEN EmptyDict
              ELSE DictPut(EmptyDict, "table",
                           KeywordWordGroup(text_lower, table_patterns[Min(tableHits)]))
        timeHits == {k \in 1..Len(time_patterns) :
                        TimePatternMatches(text_lower, time_patterns[k].parts)}
        e2 == IF timeHits = {} THEN e1
              ELSE DictPut(e1, "time_period", time_patterns[Min(timeHits)].key)
        number == FirstNumberGroup(text)
    IN  IF number = "" THEN e2 ELSE DictPut(e2, "number", ParseInt(number))

(***************************************************************************)
(* NLUProcessor._process_with_patterns                                     *)
(* A confidence is kept in tenths: 5 is 0.5, 8 is 0.8, 10 is 1.0.          *)
(***************************************************************************)
Understanding(intent, confidence, entities, text) ==
    [intent |-> intent, confidence |-> confidence, entities |-> entities,
     original_text |-> text]

\* _process_with_patterns without the break of its outer loop, so that the last
\* intent with a matching trigger wins: the fault C12 excludes
ProcessWithPatternsLastWins(text) ==
    LET text_lower == ToLower(text)
        hits == {k \in 1..Len(intent_patterns) :
                    \E n \in 1..Len(intent_patterns[k].patterns) :
                        Contains(text_lower, intent_patterns[k].patterns[n])}
        last == CHOOSE k \in hits : \A j \in hits : j <= k
    IN  IF hits = {}
        THEN Understanding("unknown", 5, ExtractEntities(text), text)
        ELSE Understanding(intent_patterns[last].intent, 8, ExtractEntities(text), text)

\* _process_with_patterns(text)
ProcessWithPatterns(text) ==
    LET text_lower == ToLower(text)
        hits == {k \in 1..Len(intent_patterns) :
                    \E n \in 1..Len(intent_patterns[k].patterns) :
                        Contains(text_lower, intent_patterns[k].patterns[n])}
    IN  IF hits = {}
        THEN Understanding("unknown", 5, ExtractEntities(text), text)
        ELSE Understanding(intent_patterns[Min(hits)].intent, 8, ExtractEntities(text), text)

(***************************************************************************)
(* NLUProcessor._generate_sql_with_templates                               *)
(***************************************************************************)
\* the select_data branch
SelectTemplate(table, entities) ==
    LET time_period == DictGet(entities, "time_period", "")
        where_clause ==
            IF "time_period" \notin DOMAIN entities THEN ""
            ELSE IF time_period = "last_week"
                 THEN "WHERE created_at >= NOW() - INTERVAL '7 days'"
            ELSE IF time_period = "last_month"
                 THEN "WHERE created_at >= NOW() - INTERVAL '1 month'"
            ELSE IF time_period = "today"
                 THEN "WHERE DATE(created_at) = CURRENT_DATE"
            ELSE ""
    IN  FormatSelect("*", table, where_clause, "", "")

\* the count_data branch
CountTemplate(table, entities) ==
    LET where_clause ==
            IF "time_period" \in DOMAIN entities /\ entities["time_period"] = "last_week"
            THEN "WHERE created_at >= NOW() - INTERVAL '7 days'"
            ELSE ""
    IN  FormatCount(table, where_clause)

\* an else branch that deletes: the fault C19 excludes
DefaultTemplateDeletes(table) == "DELETE FROM " \o table

\* the else branch: every other intent
DefaultTemplate(table) == "SELECT * FROM " \o table \o " LIMIT 10"

\* _generate_sql_with_templates with a delete_data branch that fills
\* sql_templates["delete"]: the fault C6 excludes
TemplatesWithDeleteBranch(intent, entities) ==
    LET table == DictGet(entities, "table", "unknown_table")
    IN  IF intent = "select_data" THEN SelectTemplate(table, entities)
        ELSE IF intent = "count_data" THEN CountTemplate(table, entities)
        ELSE IF intent = "delete_data" THEN "DELETE FROM " \o table \o " "
        ELSE DefaultTemplate(table)

\* _generate_sql_with_templates(intent, entities)
GenerateSqlWithTemplates(intent, entities) ==
    LET table == DictGet(entities, "table", "unknown_table")
    IN  IF intent = "select_data" THEN SelectTemplate(table, entities)
        ELSE IF intent = "count_data" THEN CountTemplate(table, entities)
        ELSE DefaultTemplate(table)

(***************************************************************************)
(* NLUProcessor._generate_sql_with_gemini and generate_sql                 *)
(* The answer of a backend call is a record: raises says whether the call  *)
(* (or reading its answer) raised, and the other fields hold the answer.   *)
(***************************************************************************)
\* sql_query.lower().startswith(('select', 'insert', 'update', 'delete'))
PassesValidation(sql_query) ==
    \E kw \in {"select", "insert", "update", "delete"} : StartsWith(ToLower(sql_query), kw)

\* _generate_sql_with_gemini(nlu_result), given what generate_content answers
GenerateSqlWithGemini(nlu_result, reply) ==
    LET fallback == GenerateSqlWithTemplates(DictGet(nlu_result, "intent", "unknown"),
                                             DictGet(nlu_result, "entities", EmptyDict))
        sql_query == Strip(reply.text)
    IN  IF reply.raises THEN fallback
        ELSE IF ~PassesValidation(sql_query) THEN fallback
        ELSE sql_query

\* generate_sql(nlu_result) on a processor whose gemini_model attribute is model
GenerateSql(model, nlu_result, reply) ==
    LET intent == DictGet(nlu_result, "intent", "unknown")
        entities == DictGet(nlu_result, "entities", EmptyDict)
    IN  IF model = "unset" THEN "SELECT 1"
        ELSE IF model = "model" THEN GenerateSqlWithGemini(nlu_result, reply)
        ELSE GenerateSqlWithTemplates(intent, entities)

\* the strategies generate_sql runs, in order
GenerateSqlCalls(model, reply) ==
    IF model = "unset" THEN <<>>
    ELSE IF model = "model"
         THEN IF reply.raises \/ ~PassesValidation(Strip(reply.text))
              THEN <<"generate_content", "templates">>
              ELSE <<"generate_content">>
    ELSE <<"templates">>

(***************************************************************************)
(* NLUProcessor._process_with_dialogflow and process_text                  *)
(***************************************************************************)
\* _process_with_dialogflow(text), given what detect_intent answers: isNone when
\* the call or the reading of the response raised, else the dict built from it
ProcessWithDialogflow(text, reply) ==
    IF reply.raises
    THEN [isNone |-> TRUE, value |-> Understanding("", 0, EmptyDict, text)]
    ELSE [isNone |-> FALSE,
          value |-> Understanding(reply.intent, reply.confidence, reply.entities, text)]

\* process_text(text) on a processor whose dialogflow_client attribute is client
ProcessText(client, text, reply) ==
    LET result == ProcessWithDialogflow(text, reply)
    IN  IF client = "unset" THEN Understanding("unknown", 5, EmptyDict, text)
        ELSE IF client = "client" /\ ~result.isNone THEN result.value
        ELSE ProcessWithPatterns(text)

\* process_text calling detect_intent a second time after it failed: the fault C18
\* excludes
ProcessTextCallsWithRetry(client, reply) ==
    IF client = "unset" THEN <<>>
    ELSE IF client = "client"
         THEN IF reply.raises THEN <<"detect_intent", "detect_intent", "patterns">>
              ELSE <<"detect_intent">>
    ELSE <<"patterns">>

\* the strategies process_text runs, in order
ProcessTextCalls(client, reply) ==
    IF client = "unset" THEN <<>>
    ELSE IF client = "client"
         THEN IF reply.raises THEN <<"detect_intent", "patterns">> ELSE <<"detect_intent">>
    ELSE <<"patterns">>

(***************************************************************************)
(* NLUProcessor.generate_response                                          *)
(* A Python value is a record: type is its type, items its elements when   *)
(* it is a list, fields its entries when it is a dict.                     *)
(***************************************************************************)
PyList(items) == [type |-> "list", items |-> items, fields |-> EmptyDict]
PyDict(fields) == [type |-> "dict", items |-> <<>>, fields |-> fields]
PyOther(type) == [type |-> type, items |-> <<>>, fields |-> EmptyDict]

\* the count_data branch of the try block: raised when query_result[0] has no
\* get method
CountResponse(query_result) ==
    IF query_result.type = "list" /\ Len(query_result.items) > 0
    THEN IF query_result.items[1].type # "dict"
         THEN [raised |-> TRUE, value |-> "AttributeError"]
         ELSE [raised |-> FALSE,
               value |-> "I found "
                         \o FormatInt(DictGet(query_result.items[1].fields, "count", 0))
                         \o " records."]
    ELSE [raised |-> FALSE, value |-> "I couldn't count the records."]

\* the select_data branch with the singular message chosen for count <= 1: the
\* fault C9 excludes
SelectResponseSingularForNone(query_result) ==
    LET count == Len(query_result.items)
    IN  IF query_result.type = "list"
        THEN IF count <= 1 THEN "I found 1 record."
             ELSE "I found " \o FormatInt(count) \o " records."
        ELSE "I couldn't retrieve the data."

\* the select_data branch of the try block
SelectResponse(query_result) ==
    LET count == Len(query_result.items)
    IN  IF query_result.type = "list"
        THEN IF count = 0 THEN "No records found."
             ELSE IF count = 1 THEN "I found 1 record."
             ELSE "I found " \o FormatInt(count) \o " records."
        ELSE "I couldn't retrieve the data."

\* the try block of generate_response
ResponseBody(nlu_result, query_result) ==
    LET intent == DictGet(nlu_result, "intent", "unknown")
    IN  IF intent = "count_data" THEN CountResponse(query_result)
        ELSE IF intent = "select_data"
             THEN [raised |-> FALSE, value |-> SelectResponse(query_result)]
        ELSE [raised |-> FALSE, value |-> "Query executed successfully."]

\* generate_response without its except clause, so that the exception reaches the
\* caller: the fault C7 excludes
GenerateResponseUnguarded(nlu_result, query_result) ==
    ResponseBody(nlu_result, query_result).value

\* generate_response(nlu_result, query_result): the try block under its except clause
GenerateResponse(nlu_result, query_result) ==
    LET body == ResponseBody(nlu_result, query_result)
    IN  IF body.raised THEN "Query completed." ELSE body.value

(***************************************************************************)
(* NLUProcessor._setup_services                                            *)
(***************************************************************************)
\* the attributes _setup_services leaves on the processor: key and project say
\* whether GEMINI_API_KEY and DIALOGFLOW_PROJECT_ID are set, model_ok and
\* client_ok whether constructing the backend handle succeeds. An exception
\* leaves the try block, and every attribute not assigned before it stays unset.
SetupServices(key, project, model_ok, client_ok) ==
    IF key /\ ~model_ok
    THEN [gemini_model |-> "unset", dialogflow_client |-> "unset"]
    ELSE [gemini_model |-> IF key THEN "model" ELSE "None",
          dialogflow_client |-> IF ~project THEN "None"
                                ELSE IF client_ok THEN "client" ELSE "unset"]

(***************************************************************************)
(* PostgresManager.  A manager is the record of its attributes; a call     *)
(* returns the manager after it, the message of the exception it raised    *)
(* ("" when it returned) and, for execute_query, what it did on the        *)
(* database.                                                               *)
(***************************************************************************)
\* PostgresManager.__init__
NewManager == [async_engine |-> "None", session_factory |-> "None", connected |-> FALSE]

\* is_connected()
IsConnected(mgr) == mgr.connected

\* connect(), when nothing raises (fail_at = "none"), when get_database_url or
\* create_async_engine raises ("engine"), or when the test statement raises
\* ("test", the engine and the session factory being assigned by then)
Connect(mgr, fail_at) ==
    IF fail_at = "engine"
    THEN [mgr |-> [mgr EXCEPT !.connected = FALSE], raised |-> "OperationalError"]
    ELSE IF fail_at = "test"
    THEN [mgr |-> [async_engine |-> "engine", session_factory |-> "factory",
                   connected |-> FALSE],
          raised |-> "OperationalError"]
    ELSE [mgr |-> [async_engine |-> "engine", session_factory |-> "factory",
                   connected |-> TRUE],
          raised |-> ""]

\* disconnect(): an exception of dispose() is logged and not raised, and the
\* assignment after it is skipped
Disconnect(mgr, dispose_ok) ==
    IF mgr.async_engine # "None" /\ ~dispose_ok
    THEN [mgr |-> mgr, raised |-> ""]
    ELSE [mgr |-> [mgr EXCEPT !.connected = FALSE], raised |-> ""]

\* execute_query without its first two lines: the fault C20 excludes
ExecuteQueryUnguarded(mgr, statement, reply) ==
    IF mgr.session_factory = "None"
    THEN [raised |-> "TypeError", value |-> PyOther("NoneType"), log |-> <<>>]
    ELSE IF reply.raises
    THEN [raised |-> "DBAPIError", value |-> PyOther("NoneType"),
          log |-> <<"session_factory", "session.execute">>]
    ELSE [raised |-> "", value |-> reply.rows,
          log |-> <<"session_factory", "session.execute">>]

\* execute_query(sql_query), given what the database answers to the statement
ExecuteQuery(mgr, statement, reply) ==
    IF ~mgr.connected
    THEN [raised |-> "Database not connected", value |-> PyOther("NoneType"),
          log |-> <<>>]
    ELSE IF reply.raises
    THEN [raised |-> "DBAPIError", value |-> PyOther("NoneType"),
          log |-> <<"session_factory", "session.execute">>]
    ELSE [raised |-> "", value |-> reply.rows,
          log |-> <<"session_factory", "session.execute">>]

(***************************************************************************)
(* SpeechHandler.speech_to_text                                            *)
(***************************************************************************)
RECURSIVE JoinTranscripts(_)
\* transcript += result.alternatives[0].transcript + " ", over the results
JoinTranscripts(results) ==
    IF results = <<>> THEN ""
    ELSE Head(results) \o " " \o JoinTranscripts(Tail(results))

\* speech_to_text(audio), given what recognize answers; every exception is
\* re-raised
SpeechToText(reply) ==
    IF reply.raises THEN [raised |-> "speech_to_text", value |-> ""]
    ELSE [raised |-> "", value |-> Strip(JoinTranscripts(reply.results))]

(***************************************************************************)
(* Bounds and the inputs the environment supplies.                         *)
(***************************************************************************)
\* the longest row list a query returns
MaxRows == 2

IntentLabels ==
    {"select_data", "count_data", "insert_data", "update_data", "delete_data", "unknown"}

Texts ==
    { "Show me all orders from last week",
      "How many customers do we have?",
      "xyz purple elephant",
      "Count rows and show me 5",
      "Delete everything in users today",
      "Total number of orders from shop_2 last   month",
      "Find 3 rows in users from orders this week last week" }

\* intent names a Dialogflow agent reports: its own intents' display names
RemoteIntents == IntentLabels \cup {"Default Welcome Intent"}

\* intent_detection_confidence, in tenths
RemoteScores == {0, 10}

\* the parameters of the matched intent, under the names the agent gives them; a
\* parameter that was not filled is reported with an empty value
RemoteEntities ==
    { EmptyDict, [table |-> "users"], [table |-> "users", time_period |-> "last_week"],
      [time_period |-> "yesterday"], DictPut(EmptyDict, "date-time", "") }

DialogflowReplies ==
    {[called |-> TRUE, raises |-> TRUE, intent |-> "", confidence |-> 0,
      entities |-> EmptyDict]}
    \cup {[called |-> TRUE, raises |-> FALSE, intent |-> i, confidence |-> c, entities |-> e] :
            i \in RemoteIntents, c \in RemoteScores, e \in RemoteEntities}

NoDialogflowReply ==
    [called |-> FALSE, raises |-> FALSE, intent |-> "", confidence |-> 0,
     entities |-> EmptyDict]

\* response.text of generate_content
GeminiTexts ==
    { "SELECT * FROM users",
      "  delete from users where id = 1 \n",
      "INSERT INTO t VALUES (1)",
      "UPDATE t SET a = 1",
      "selection of all the users",
      "Here is the query: SELECT 1",
      "" }

GeminiReplies ==
    {[called |-> TRUE, raises |-> TRUE, text |-> ""]}
    \cup {[called |-> TRUE, raises |-> FALSE, text |-> t] : t \in GeminiTexts}

NoGeminiReply == [called |-> FALSE, raises |-> FALSE, text |-> ""]

\* the rows of one result share their columns
RowShapes == {[count |-> 0], [count |-> 7], [count |-> 12], [id |-> 1]}

\* what execute_query returns: the rows of a statement that returns rows, or the
\* one-row list holding affected_rows
QueryResults ==
    {PyList([k \in 1..n |-> PyDict(f)]) : n \in 0..MaxRows, f \in RowShapes}
    \cup {PyList(<<PyDict([affected_rows |-> 1])>>)}

NoResult == PyOther("NoneType")

\* what the database answers to a statement: an error, or its result
ExecuteReplies ==
    {[raises |-> TRUE, rows |-> NoResult]}
    \cup {[raises |-> FALSE, rows |-> r] : r \in QueryResults}

\* where connect fails
ConnectFailures == {"none", "engine", "test"}

\* what recognize answers to an uploaded recording: an error, or the recognised
\* results
SpeechReplies ==
    {[raises |-> TRUE, results |-> <<>>]}
    \cup {[raises |-> FALSE, results |-> r] :
            r \in {<<>>, <<"Delete everything", "in users today">>}}

\* the handlers that run at once
Requests == {1, 2}

\* the texts, and the answers of the backends and of the database, of requests
\* that run at once
ConcurrentTexts == {"Show me all orders from last week", "How many customers do we have?"}

ConcurrentDialogflowReplies ==
    {r \in DialogflowReplies :
        \/ r.raises
        \/ r.intent = "delete_data" /\ r.confidence = 10 /\ r.entities = [table |-> "users"]}

ConcurrentGeminiReplies ==
    {r \in GeminiReplies : r.raises \/ r.text = "UPDATE t SET a = 1"}

ConcurrentExecuteReplies ==
    {r \in ExecuteReplies :
        r.raises \/ r.rows = PyList(<<PyDict([count |-> 7])>>)}

\* statements a caller of execute_query passes
Statements == {"SELECT 1", "SELECT * FROM users   ", "DELETE FROM users"}

\* the values a caller of generate_response can pass as query_result: a list of up
\* to MaxRows elements, dicts or not, or a value that is no list
ResultItems == {PyDict([count |-> 7]), PyDict([id |-> 1]), PyOther("int")}

AnyResults ==
    {PyOther("NoneType"), PyDict([affected_rows |-> 1])}
    \cup {PyList(items) : items \in UNION {[1..n -> ResultItems] : n \in 0..MaxRows}}

NoUnderstanding == Understanding("", 0, EmptyDict, "")

(***************************************************************************)
(* State.                                                                  *)
(***************************************************************************)
VARIABLES
    config,             \* Config: which of GEMINI_API_KEY, DIALOGFLOW_PROJECT_ID are set
    app,                \* "import", "startup", "serving", "failed" or "stopped"
    gemini_model,       \* NLUProcessor.gemini_model: "unset", "None" or "model"
    dialogflow_client,  \* NLUProcessor.dialogflow_client: "unset", "None" or "client"
    async_engine,       \* PostgresManager.async_engine: "None" or "engine"
    session_factory,    \* PostgresManager.session_factory: "None" or "factory"
    connected,          \* PostgresManager._connected
    handler,            \* the endpoint of the current request: "none", "text", "voice"
    pc,                 \* where the handler of the current request is
    request_text,       \* request.query
    dialogflow_reply,   \* what detect_intent answered in this request
    nlu_result,         \* the handler's nlu_result
    gemini_reply,       \* what generate_content answered in this request
    sql_query,          \* the handler's sql_query
    query_result,       \* the handler's result
    message,            \* the handler's message
    raised,             \* the message of the exception that ended the call, else ""
    calls,              \* the strategies and collaborators this request ran, in order
    inflight            \* the handlers running at once: for each, its position and locals

vars == <<config, app, gemini_model, dialogflow_client, async_engine, session_factory,
          connected, handler, pc, request_text, dialogflow_reply, nlu_result,
          gemini_reply, sql_query, query_result, message, raised, calls, inflight>>

\* postgres_manager
manager ==
    [async_engine |-> async_engine, session_factory |-> session_factory,
     connected |-> connected]

service == <<config, app, gemini_model, dialogflow_client, async_engine, session_factory,
             connected>>

NoRequest ==
    /\ handler = "none"
    /\ raised = ""
    /\ request_text = ""
    /\ dialogflow_reply = NoDialogflowReply
    /\ nlu_result = NoUnderstanding
    /\ gemini_reply = NoGeminiReply
    /\ sql_query = ""
    /\ query_result = NoResult
    /\ message = ""
    /\ calls = <<>>

Init ==
    /\ config \in [gemini_api_key : BOOLEAN, dialogflow_project_id : BOOLEAN]
    /\ app = "import"
    /\ gemini_model = "unset"
    /\ dialogflow_client = "unset"
    /\ async_engine = NewManager.async_engine
    /\ session_factory = NewManager.session_factory
    /\ connected = NewManager.connected
    /\ pc = "none"
    /\ NoRequest
    /\ inflight = <<>>

(***************************************************************************)
(* Actions.                                                                *)
(***************************************************************************)
\* main.py builds the components when the module is imported
Construct ==
    /\ app = "import"
    /\ \E model_ok, client_ok \in BOOLEAN :
          LET made == SetupServices(config.gemini_api_key, config.dialogflow_project_id,
                                    model_ok, client_ok)
          IN  /\ gemini_model' = made.gemini_model
              /\ dialogflow_client' = made.dialogflow_client
    /\ app' = "startup"
    /\ UNCHANGED <<config, async_engine, session_factory, connected, handler, pc,
                   request_text, dialogflow_reply, nlu_result, gemini_reply, sql_query,
                   query_result, message, raised, calls>>
    /\ UNCHANGED inflight

\* startup_event: PostgresManager.connect; a failing connect is re-raised and the
\* application does not start
Startup ==
    /\ app = "startup"
    /\ \E fail_at \in ConnectFailures :
          LET done == Connect(manager, fail_at)
          IN  /\ async_engine' = done.mgr.async_engine
              /\ session_factory' = done.mgr.session_factory
              /\ connected' = done.mgr.connected
              /\ raised' = done.raised
              /\ app' = IF done.raised = "" THEN "serving" ELSE "failed"
    /\ UNCHANGED <<config, gemini_model, dialogflow_client, handler, pc, request_text,
                   dialogflow_reply, nlu_result, gemini_reply, sql_query, query_result,
                   message, calls>>
    /\ UNCHANGED inflight

\* shutdown_event: PostgresManager.disconnect, after which the process ends and
\* nothing of its requests is left
Shutdown ==
    /\ app = "serving"
    /\ pc \in {"none", "responded", "error"}
    /\ \E dispose_ok \in BOOLEAN :
          LET done == Disconnect(manager, dispose_ok)
          IN  /\ async_engine' = done.mgr.async_engine
              /\ session_factory' = done.mgr.session_factory
              /\ connected' = done.mgr.connected
    /\ app' = "stopped"
    /\ pc' = "none"
    /\ handler' = "none"
    /\ raised' = ""
    /\ request_text' = ""
    /\ dialogflow_reply' = NoDialogflowReply
    /\ nlu_result' = NoUnderstanding
    /\ gemini_reply' = NoGeminiReply
    /\ sql_query' = ""
    /\ query_result' = NoResult
    /\ message' = ""
    /\ calls' = <<>>
    /\ UNCHANGED <<config, gemini_model, dialogflow_client>>
    /\ UNCHANGED inflight

\* a POST /query/text arrives
ReceiveRequest ==
    /\ app = "serving"
    /\ pc \in {"none", "responded", "error"}
    /\ \E text \in Texts : request_text' = text
    /\ handler' = "text"
    /\ pc' = "received"
    /\ dialogflow_reply' = NoDialogflowReply
    /\ nlu_result' = NoUnderstanding
    /\ gemini_reply' = NoGeminiReply
    /\ sql_query' = ""
    /\ query_result' = NoResult
    /\ message' = ""
    /\ raised' = ""
    /\ calls' = <<>>
    /\ UNCHANGED service
    /\ UNCHANGED inflight

\* a POST /query/voice arrives: text_query = await speech_handler.speech_to_text(audio),
\* whose exception reaches the handler's except clause
ReceiveVoiceRequest ==
    /\ app = "serving"
    /\ pc \in {"none", "responded", "error"}
    /\ \E reply \in SpeechReplies :
          LET done == SpeechToText(reply)
          IN  /\ request_text' = done.value
              /\ raised' = done.raised
              /\ pc' = IF done.raised = "" THEN "received" ELSE "error"
    /\ handler' = "voice"
    /\ dialogflow_reply' = NoDialogflowReply
    /\ nlu_result' = NoUnderstanding
    /\ gemini_reply' = NoGeminiReply
    /\ sql_query' = ""
    /\ query_result' = NoResult
    /\ message' = ""
    /\ calls' = <<"speech_to_text">>
    /\ UNCHANGED service
    /\ UNCHANGED inflight

\* nlu_result = await nlu_processor.process_text(request.query)
ProcessTextStep ==
    /\ pc = "received"
    /\ \E reply \in DialogflowReplies :
          /\ nlu_result' = ProcessText(dialogflow_client, request_text, reply)
          /\ dialogflow_reply' = IF dialogflow_client = "client" THEN reply
                                 ELSE NoDialogflowReply
          /\ calls' = calls \o ProcessTextCalls(dialogflow_client, reply)
    /\ pc' = "understood"
    /\ UNCHANGED <<service, handler, request_text, gemini_reply, sql_query, query_result,
                   message, raised>>
    /\ UNCHANGED inflight

\* sql_query = await nlu_processor.generate_sql(nlu_result)
GenerateSqlStep ==
    /\ pc = "understood"
    /\ \E reply \in GeminiReplies :
          /\ sql_query' = GenerateSql(gemini_model, nlu_result, reply)
          /\ gemini_reply' = IF gemini_model = "model" THEN reply ELSE NoGeminiReply
          /\ calls' = calls \o GenerateSqlCalls(gemini_model, reply)
    /\ pc' = "generated"
    /\ UNCHANGED <<service, handler, request_text, dialogflow_reply, nlu_result,
                   query_result, message, raised>>
    /\ UNCHANGED inflight

\* the handler going on to summarization after a failed execute_query: the fault
\* C13 excludes
ExecuteQueryStepSwallowsError ==
    /\ pc = "generated"
    /\ \E reply \in ExecuteReplies :
          LET done == ExecuteQuery(manager, sql_query, reply)
          IN  /\ calls' = calls \o <<"execute_query">> \o done.log
              /\ raised' = done.raised
              /\ query_result' = IF done.raised = "" THEN done.value ELSE query_result
              /\ pc' = "executed"
    /\ UNCHANGED <<service, handler, request_text, dialogflow_reply, nlu_result,
                   gemini_reply, sql_query, message>>
    /\ UNCHANGED inflight

\* result = await postgres_manager.execute_query(sql_query); an exception reaches
\* the handler's except clause, which answers HTTP 500
ExecuteQueryStep ==
    /\ pc = "generated"
    /\ \E reply \in ExecuteReplies :
          LET done == ExecuteQuery(manager, sql_query, reply)
          IN  /\ calls' = calls \o <<"execute_query">> \o done.log
              /\ raised' = done.raised
              /\ query_result' = IF done.raised = "" THEN done.value ELSE query_result
              /\ pc' = IF done.raised = "" THEN "executed" ELSE "error"
    /\ UNCHANGED <<service, handler, request_text, dialogflow_reply, nlu_result,
                   gemini_reply, sql_query, message>>
    /\ UNCHANGED inflight

\* message = await nlu_processor.generate_response(nlu_result, result), and the
\* QueryResponse is returned
GenerateResponseStep ==
    /\ pc = "executed"
    /\ message' = GenerateResponse(nlu_result, query_result)
    /\ calls' = Append(calls, "generate_response")
    /\ pc' = "responded"
    /\ UNCHANGED <<service, handler, request_text, dialogflow_reply, nlu_result,
                   gemini_reply, sql_query, query_result, raised>>
    /\ UNCHANGED inflight

Next ==
    \/ Construct
    \/ Startup
    \/ Shutdown
    \/ ReceiveRequest
    \/ ReceiveVoiceRequest
    \/ ProcessTextStep
    \/ GenerateSqlStep
    \/ ExecuteQueryStep
    \/ GenerateResponseStep

Spec == Init /\ [][Next]_vars

(***************************************************************************)
(* generate_response called on its own, with any Understanding and any     *)
(* value as the query result.                                              *)
(***************************************************************************)
InitSummarize ==
    /\ config = [gemini_api_key |-> FALSE, dialogflow_project_id |-> FALSE]
    /\ app = "serving"
    /\ gemini_model = "None"
    /\ dialogflow_client = "None"
    /\ async_engine = Connect(NewManager, "none").mgr.async_engine
    /\ session_factory = Connect(NewManager, "none").mgr.session_factory
    /\ connected = Connect(NewManager, "none").mgr.connected
    /\ handler = "none"
    /\ raised = ""
    /\ pc = "summarize_called"
    /\ request_text = ""
    /\ dialogflow_reply = NoDialogflowReply
    /\ nlu_result \in {Understanding(i, 8, EmptyDict, "") : i \in RemoteIntents}
    /\ gemini_reply = NoGeminiReply
    /\ sql_query = ""
    /\ query_result \in AnyResults
    /\ message = ""
    /\ calls = <<>>
    /\ inflight = <<>>

SummarizeCall ==
    /\ pc = "summarize_called"
    /\ message' = GenerateResponse(nlu_result, query_result)
    /\ calls' = Append(calls, "generate_response")
    /\ pc' = "summarize_returned"
    /\ UNCHANGED <<service, handler, request_text, dialogflow_reply, nlu_result,
                   gemini_reply, sql_query, query_result, raised>>
    /\ UNCHANGED inflight

SpecSummarize == InitSummarize /\ [][SummarizeCall]_vars

(***************************************************************************)
(* A PostgresManager used on its own: connect, disconnect and              *)
(* execute_query called in any order.  pc is the latest call, calls what   *)
(* it did on the database, sql_query and query_result the statement and    *)
(* the result of the latest execute_query.                                 *)
(***************************************************************************)
InitManager ==
    /\ config = [gemini_api_key |-> FALSE, dialogflow_project_id |-> FALSE]
    /\ app = "import"
    /\ gemini_model = "unset"
    /\ dialogflow_client = "unset"
    /\ async_engine = NewManager.async_engine
    /\ session_factory = NewManager.session_factory
    /\ connected = NewManager.connected
    /\ pc = "init"
    /\ NoRequest
    /\ inflight = <<>>

ManagerConnect ==
    /\ \E fail_at \in ConnectFailures :
          LET done == Connect(manager, fail_at)
          IN  /\ async_engine' = done.mgr.async_engine
              /\ session_factory' = done.mgr.session_factory
              /\ connected' = done.mgr.connected
              /\ raised' = done.raised
    /\ pc' = "connect"
    /\ calls' = <<>>
    /\ UNCHANGED <<config, app, gemini_model, dialogflow_client, handler, request_text,
                   dialogflow_reply, nlu_result, gemini_reply, sql_query, query_result,
                   message>>
    /\ UNCHANGED inflight

ManagerDisconnect ==
    /\ \E dispose_ok \in BOOLEAN :
          LET done == Disconnect(manager, dispose_ok)
          IN  /\ async_engine' = done.mgr.async_engine
              /\ session_factory' = done.mgr.session_factory
              /\ connected' = done.mgr.connected
              /\ raised' = done.raised
    /\ pc' = "disconnect"
    /\ calls' = <<>>
    /\ UNCHANGED <<config, app, gemini_model, dialogflow_client, handler, request_text,
                   dialogflow_reply, nlu_result, gemini_reply, sql_query, query_result,
                   message>>
    /\ UNCHANGED inflight

ManagerExecuteQuery ==
    /\ \E statement \in Statements, reply \in ExecuteReplies :
          LET done == ExecuteQuery(manager, statement, reply)
          IN  /\ sql_query' = statement
              /\ query_result' = done.value
              /\ raised' = done.raised
              /\ calls' = done.log
    /\ pc' = "execute_query"
    /\ UNCHANGED <<service, handler, request_text, dialogflow_reply, nlu_result,
                   gemini_reply, message>>
    /\ UNCHANGED inflight

NextManager ==
    \/ ManagerConnect
    \/ ManagerDisconnect
    \/ ManagerExecuteQuery

SpecManager == InitManager /\ [][NextManager]_vars

(***************************************************************************)
(* Two text requests handled at once by the same NLUProcessor and          *)
(* PostgresManager.  A handler is the record of its position and its       *)
(* locals; it can be suspended inside detect_intent, inside                *)
(* generate_content and inside execute_query, and the other handler runs   *)
(* meanwhile.  interleaved records that it took a step while the other     *)
(* one was suspended in a backend call.                                    *)
(***************************************************************************)
NewHandler ==
    [pc |-> "none", request_text |-> "", dialogflow_reply |-> NoDialogflowReply,
     nlu_result |-> NoUnderstanding, gemini_reply |-> NoGeminiReply, sql_query |-> "",
     query_result |-> NoResult, message |-> "", raised |-> "", interleaved |-> FALSE]

\* the other handler
Other(r) == CHOOSE q \in Requests : q # r

\* handler r is suspended in a call to a remote backend
Suspended(handlers, r) == handlers[r].pc \in {"in_detect_intent", "in_generate_content"}

\* generate_sql and generate_response reading the Understanding of the latest
\* process_text from the processor instead of their argument: the fault C14 excludes
NluArgShared(handlers, r) ==
    IF handlers[Other(r)].pc \in {"understood", "in_generate_content", "generated"}
    THEN handlers[Other(r)].nlu_result
    ELSE handlers[r].nlu_result

\* the nlu_result handler r passes to generate_sql and generate_response
NluArg(handlers, r) == handlers[r].nlu_result

InitConcurrent ==
    /\ \E key, project, model_ok, client_ok \in BOOLEAN :
          LET made == SetupServices(key, project, model_ok, client_ok)
          IN  /\ config = [gemini_api_key |-> key, dialogflow_project_id |-> project]
              /\ gemini_model = made.gemini_model
              /\ dialogflow_client = made.dialogflow_client
    /\ app = "serving"
    /\ async_engine = Connect(NewManager, "none").mgr.async_engine
    /\ session_factory = Connect(NewManager, "none").mgr.session_factory
    /\ connected = Connect(NewManager, "none").mgr.connected
    /\ pc = "none"
    /\ NoRequest
    /\ inflight = [r \in Requests |-> NewHandler]

\* handler r goes on: its record becomes next
Step(r, next) ==
    /\ inflight' = [inflight EXCEPT
                      ![r] = [next EXCEPT
                                !.interleaved = inflight[r].interleaved
                                                   \/ Suspended(inflight, Other(r))]]
    /\ UNCHANGED <<service, handler, pc, request_text, dialogflow_reply, nlu_result,
                   gemini_reply, sql_query, query_result, message, raised, calls>>

\* a POST /query/text arrives
Arrive(r) ==
    /\ inflight[r].pc = "none"
    /\ \E text \in ConcurrentTexts :
          Step(r, [inflight[r] EXCEPT !.pc = "received", !.request_text = text])

\* process_text up to the call of detect_intent, or to its end when there is no
\* client
EnterProcessText(r) ==
    /\ inflight[r].pc = "received"
    /\ IF dialogflow_client = "client"
       THEN Step(r, [inflight[r] EXCEPT !.pc = "in_detect_intent"])
       ELSE Step(r, [inflight[r] EXCEPT
                       !.pc = "understood",
                       !.nlu_result = ProcessText(dialogflow_client, inflight[r].request_text,
                                                  NoDialogflowReply)])

\* detect_intent answers and process_text returns
ReturnDetectIntent(r) ==
    /\ inflight[r].pc = "in_detect_intent"
    /\ \E reply \in ConcurrentDialogflowReplies :
          Step(r, [inflight[r] EXCEPT
                     !.pc = "understood",
                     !.dialogflow_reply = reply,
                     !.nlu_result = ProcessText(dialogflow_client, inflight[r].request_text,
                                                reply)])

\* generate_sql up to the call of generate_content, or to its end when there is no
\* model
EnterGenerateSql(r) ==
    /\ inflight[r].pc = "understood"
    /\ IF gemini_model = "model"
       THEN Step(r, [inflight[r] EXCEPT !.pc = "in_generate_content"])
       ELSE Step(r, [inflight[r] EXCEPT
                       !.pc = "generated",
                       !.sql_query = GenerateSql(gemini_model, NluArg(inflight, r),
                                                 NoGeminiReply)])

\* generate_content answers and generate_sql returns
ReturnGenerateContent(r) ==
    /\ inflight[r].pc = "in_generate_content"
    /\ \E reply \in ConcurrentGeminiReplies :
          Step(r, [inflight[r] EXCEPT
                     !.pc = "generated",
                     !.gemini_reply = reply,
                     !.sql_query = GenerateSql(gemini_model, NluArg(inflight, r), reply)])

\* execute_query, from its call to its return
AwaitExecuteQuery(r) ==
    /\ inflight[r].pc = "generated"
    /\ \E reply \in ConcurrentExecuteReplies :
          LET done == ExecuteQuery(manager, inflight[r].sql_query, reply)
          IN  Step(r, [inflight[r] EXCEPT
                         !.pc = IF done.raised = "" THEN "executed" ELSE "error",
                         !.raised = done.raised,
                         !.query_result = IF done.raised = "" THEN done.value ELSE @])

\* generate_response, and the QueryResponse is returned
Respond(r) ==
    /\ inflight[r].pc = "executed"
    /\ Step(r, [inflight[r] EXCEPT
                   !.pc = "responded",
                   !.message = GenerateResponse(NluArg(inflight, r),
                                                inflight[r].query_result)])

NextConcurrent ==
    \E r \in Requests :
        \/ Arrive(r)
        \/ EnterProcessText(r)
        \/ ReturnDetectIntent(r)
        \/ EnterGenerateSql(r)
        \/ ReturnGenerateContent(r)
        \/ AwaitExecuteQuery(r)
        \/ Respond(r)

SpecConcurrent == InitConcurrent /\ [][NextConcurrent]_vars

(***************************************************************************)
(* Properties.                                                             *)
(***************************************************************************)
\* process_text has returned in the current request
Understood == pc \in {"understood", "generated", "executed", "responded"}

\* generate_sql has returned in the current request
Generated == pc \in {"generated", "executed", "responded"}

\* the strategy or collaborator ran in the current request
Ran(name) == \E i \in 1..Len(calls) : calls[i] = name

SqlKeywords == {"SELECT", "INSERT", "UPDATE", "DELETE"}

UpperChar(c) == IF c \in CharsOf(LowerAlpha) THEN Ch(UpperAlpha, IndexIn(c, LowerAlpha)) ELSE c

RECURSIVE ToUpper(_)
\* s uppercased
ToUpper(s) == IF s = "" THEN "" ELSE UpperChar(Head(s)) \o ToUpper(Tail(s))

\* the first whitespace-delimited token of s, "" when s has none
FirstToken(s) ==
    LET t == LStrip(s)
        ws == {i \in 1..Len(t) : IsSpace(Ch(t, i))}
    IN  IF ws = {} THEN t ELSE SubSeq(t, 1, Min(ws) - 1)

\* the generative backend supplied no statement that generate_sql accepts
NoValidGenerated ==
    \/ gemini_model # "model"
    \/ gemini_reply.raises
    \/ ~PassesValidation(Strip(gemini_reply.text))

\* C1: whatever the text and whatever the remote classifier does, the Understanding
\* process_text returns has an intent of the fixed label set and a confidence
\* in [0,1] (0..10 tenths).
C1_IntentInLabelSet ==
    Understood => /\ nlu_result.intent \in IntentLabels
                  /\ nlu_result.confidence \in 0..10

\* C2: whatever the Understanding and whatever the generative backend does, the
\* string generate_sql returns is non-empty and its first whitespace-delimited
\* token, uppercased, is exactly SELECT, INSERT, UPDATE or DELETE.
C2_FirstTokenIsKeyword ==
    Generated => /\ sql_query # ""
                 /\ ToUpper(FirstToken(sql_query)) \in SqlKeywords

\* C3: in every failure case of the generative backend (not configured, handle
\* missing after a failed setup, call raised, output rejected by the validation)
\* generate_sql returns what the template strategy returns for the same intent
\* and entities.
C3_FailuresDegradeToTemplate ==
    (Generated /\ NoValidGenerated)
        => sql_query = GenerateSqlWithTemplates(nlu_result.intent, nlu_result.entities)

\* C4: with the remote classifier configured, process_text calls it first, and
\* when it fails (client construction failed at setup, or the call or the reading
\* of its response raised) the Understanding is the local pattern strategy's.
C4_RemoteFailureFallsBackToLocal ==
    (Understood /\ config.dialogflow_project_id)
        => /\ dialogflow_client = "client" => calls[1] = "detect_intent"
           /\ (dialogflow_client # "client" \/ dialogflow_reply.raises)
                 => nlu_result = ProcessWithPatterns(request_text)

\* C5: for intent unknown and no entities, whenever the generative backend supplies
\* no valid statement, generate_sql returns SELECT * FROM unknown_table LIMIT 10;
\* and "xyz purple elephant" with no backend configured gives unknown, 0.5 and
\* that query.
C5_UnknownGivesBoundedRead ==
    /\ (Generated /\ NoValidGenerated /\ nlu_result.intent = "unknown"
          /\ nlu_result.entities = EmptyDict)
          => sql_query = "SELECT * FROM unknown_table LIMIT 10"
    /\ (Generated /\ request_text = "xyz purple elephant"
          /\ ~config.gemini_api_key /\ ~config.dialogflow_project_id)
          => /\ nlu_result.intent = "unknown"
             /\ nlu_result.confidence = 5
             /\ sql_query = "SELECT * FROM unknown_table LIMIT 10"

\* C6: whenever the template strategy produced the query, the query is a read
\* (its leading keyword is SELECT), and for every intent other than select_data
\* and count_data it is exactly SELECT * FROM <table> LIMIT 10, <table> being
\* the table entity, or unknown_table when there is none.
C6_TemplatesOnlyRead ==
    (Generated /\ Ran("templates"))
        => /\ FirstToken(sql_query) = "SELECT"
           /\ nlu_result.intent \notin {"select_data", "count_data"}
                 => sql_query =
                       "SELECT * FROM "
                       \o (IF "table" \in DOMAIN nlu_result.entities
                           THEN nlu_result.entities["table"] ELSE "unknown_table")
                       \o " LIMIT 10"

\* C6 witness: the template strategy answered a delete_data Understanding that
\* names a table with a bounded read of that table.
C6_Witness ==
    /\ Generated /\ Ran("templates")
    /\ nlu_result.intent = "delete_data"
    /\ "table" \in DOMAIN nlu_result.entities
    /\ sql_query = "SELECT * FROM users LIMIT 10"

\* generate_response has returned for a direct call
Summarized == pc = "summarize_returned"

\* the sentences generate_response builds for a count of n
FoundMessage(n) == "I found " \o FormatInt(n) \o " records."

\* C7: generate_response returns a sentence for every Understanding and every
\* query result value: the generic completion message when its body fails (the
\* first element of a count_data result is no mapping), and the generic success
\* message for every intent other than count_data and select_data.
C7_ResponseNeverFails ==
    Summarized
        => /\ message \in {"Query completed.", "Query executed successfully.",
                           "I couldn't count the records.", "I couldn't retrieve the data.",
                           "No records found.", "I found 1 record."}
                          \cup {FoundMessage(n) : n \in 0..12}
           /\ (/\ nlu_result.intent = "count_data"
               /\ query_result.type = "list"
               /\ query_result.items # <<>>
               /\ query_result.items[1].type # "dict")
                 => message = "Query completed."
           /\ nlu_result.intent \notin {"count_data", "select_data"}
                 => message = "Query executed successfully."

\* C7 witness: a count_data result whose first element is no mapping was answered
\* with the generic completion message.
C7_Witness ==
    /\ Summarized
    /\ nlu_result.intent = "count_data"
    /\ query_result.type = "list"
    /\ Len(query_result.items) > 0
    /\ query_result.items[1].type = "int"
    /\ message = "Query completed."

\* C8: for count_data, generate_response reports the first row's count when the
\* result is a non-empty list whose first row has a count field, and answers
\* "I couldn't count the records." both for an empty list and for a first row
\* without a count field.
C8_CountReportedOrCouldNotCount ==
    (pc = "responded" /\ nlu_result.intent = "count_data")
        => IF query_result.items # <<>> /\ "count" \in DOMAIN query_result.items[1].fields
           THEN message = FoundMessage(query_result.items[1].fields["count"])
           ELSE message = "I couldn't count the records."

\* C9: for select_data and a result of n rows, generate_response answers
\* "No records found." for n = 0, the singular sentence for n = 1 and the plural
\* sentence carrying n for n > 1.
C9_SelectReportsRowCount ==
    (pc = "responded" /\ nlu_result.intent = "select_data")
        => LET n == Len(query_result.items)
           IN  /\ n = 0 => message = "No records found."
               /\ n = 1 => message = "I found 1 record."
               /\ n > 1 => message = FoundMessage(n)
               /\ n = 2 => message = "I found 2 records."

\* C9 witness: a select_data request whose query returned two rows was answered
\* with the plural sentence.
C9_Witness ==
    /\ pc = "responded"
    /\ nlu_result.intent = "select_data"
    /\ Len(query_result.items) = 2
    /\ message = "I found 2 records."

\* C10: with neither backend configured, "Show me all orders from last week"
\* gives the entities {table: orders, time_period: last_week}, the intent
\* select_data and exactly the query
\* SELECT * FROM orders WHERE created_at >= NOW() - INTERVAL '7 days'.
C10_OrdersLastWeekScenario ==
    (/\ Generated
     /\ request_text = "Show me all orders from last week"
     /\ ~config.gemini_api_key
     /\ ~config.dialogflow_project_id)
        => /\ nlu_result.entities = [table |-> "orders", time_period |-> "last_week"]
           /\ nlu_result.intent = "select_data"
           /\ sql_query = "SELECT * FROM orders WHERE created_at >= NOW() - INTERVAL '7 days'"

\* neither backend is configured
NoBackends == ~config.gemini_api_key /\ ~config.dialogflow_project_id

\* C11: with neither backend configured, "How many customers do we have?" gives
\* the intent count_data, no entities and exactly the query
\* SELECT COUNT(*) FROM unknown_table.
C11_HowManyCustomersScenario ==
    (Generated /\ request_text = "How many customers do we have?" /\ NoBackends)
        => /\ nlu_result.intent = "count_data"
           /\ nlu_result.entities = EmptyDict
           /\ sql_query = "SELECT COUNT(*) FROM unknown_table"

\* the priority order of the local strategy
LocalOrder == <<"select_data", "count_data", "insert_data", "update_data", "delete_data">>

\* a trigger phrase of the k-th intent is a substring of the lowercased text
Triggered(text, k) ==
    \E n \in 1..Len(intent_patterns[k].patterns) :
        Contains(ToLower(text), intent_patterns[k].patterns[n])

\* C12: the local strategy returns the first intent, in the order select_data,
\* count_data, insert_data, update_data, delete_data, that has a trigger phrase in
\* the lowercased text, with confidence 0.8, and unknown with confidence 0.5
\* exactly when no trigger occurs; a text with both "count" and "show me" is
\* select_data.
C12_LocalPriorityOrder ==
    (pc = "understood" /\ Ran("patterns"))
        => /\ Len(intent_patterns) = Len(LocalOrder)
           /\ \A k \in 1..Len(LocalOrder) :
                 (Triggered(request_text, k) /\ \A j \in 1..(k - 1) : ~Triggered(request_text, j))
                    => nlu_result.intent = LocalOrder[k]
           /\ nlu_result.intent = "unknown"
                 <=> \A k \in 1..Len(LocalOrder) : ~Triggered(request_text, k)
           /\ nlu_result.confidence = IF nlu_result.intent = "unknown" THEN 5 ELSE 8
           /\ (/\ Contains(ToLower(request_text), "count")
               /\ Contains(ToLower(request_text), "show me"))
                 => nlu_result.intent = "select_data"

\* C12 witness: a text with "count" and "show me" was classified by the local
\* strategy as select_data with confidence 0.8.
C12_Witness ==
    /\ pc = "understood" /\ Ran("patterns")
    /\ request_text = "Count rows and show me 5"
    /\ nlu_result.intent = "select_data"
    /\ nlu_result.confidence = 8

\* the query the template strategy is to return for select_data and count_data
ExactTemplateQuery(intent, entities) ==
    LET table == IF "table" \in DOMAIN entities THEN entities["table"] ELSE "unknown_table"
        period == IF "time_period" \in DOMAIN entities THEN entities["time_period"] ELSE ""
        week == " WHERE created_at >= NOW() - INTERVAL '7 days'"
    IN  IF intent = "select_data"
        THEN "SELECT * FROM " \o table
             \o (IF period = "last_week" THEN week
                 ELSE IF period = "last_month"
                      THEN " WHERE created_at >= NOW() - INTERVAL '1 month'"
                 ELSE IF period = "today" THEN " WHERE DATE(created_at) = CURRENT_DATE"
                 ELSE "")
        ELSE "SELECT COUNT(*) FROM " \o table \o (IF period = "last_week" THEN week ELSE "")

\* C15: for select_data the template strategy returns exactly SELECT * FROM <table>,
\* followed by the WHERE clause of last_week, last_month or today and by nothing
\* for any other or no time_period; for count_data exactly
\* SELECT COUNT(*) FROM <table>, followed by the 7-days clause for last_week only.
C15_ExactTemplateStrings ==
    (pc = "generated" /\ Ran("templates")
       /\ nlu_result.intent \in {"select_data", "count_data"})
        => sql_query = ExactTemplateQuery(nlu_result.intent, nlu_result.entities)

\* the priority orders of the entity rules
TableOrder == <<"from", "table", "in">>
TimeOrder == <<"last_week", "last_month", "yesterday", "today", "this_week", "this_month">>

\* the k-th table rule matches somewhere in the lowercased text
TableRuleMatches(text, k) == KeywordWordHits(ToLower(text), TableOrder[k]) # {}

\* the k-th time phrase occurs in the lowercased text
TimeRuleMatches(text, k) == TimePatternMatches(ToLower(text), time_patterns[k].parts)

\* C16: the table entity is the word captured by the highest-priority rule
\* ("from X", then "table X", then "in X") that matches anywhere in the text, the
\* time_period is the first phrase found in the order last_week, last_month,
\* yesterday, today, this_week, this_month, each is present only when a rule
\* matches, and a text without any match gives the empty map.
C16_FirstMatchWins ==
    (pc = "understood" /\ Ran("patterns"))
        => LET e == nlu_result.entities
           IN  /\ table_patterns = TableOrder
               /\ \A k \in 1..Len(TimeOrder) : time_patterns[k].key = TimeOrder[k]
               /\ DOMAIN e \subseteq {"table", "time_period", "number"}
               /\ \A k \in 1..Len(TableOrder) :
                     (/\ TableRuleMatches(request_text, k)
                      /\ \A j \in 1..(k - 1) : ~TableRuleMatches(request_text, j))
                        => /\ "table" \in DOMAIN e
                           /\ e["table"] = KeywordWordGroup(ToLower(request_text), TableOrder[k])
               /\ "table" \in DOMAIN e
                     <=> \E k \in 1..Len(TableOrder) : TableRuleMatches(request_text, k)
               /\ \A k \in 1..Len(TimeOrder) :
                     (/\ TimeRuleMatches(request_text, k)
                      /\ \A j \in 1..(k - 1) : ~TimeRuleMatches(request_text, j))
                        => /\ "time_period" \in DOMAIN e
                           /\ e["time_period"] = TimeOrder[k]
               /\ "time_period" \in DOMAIN e
                     <=> \E k \in 1..Len(TimeOrder) : TimeRuleMatches(request_text, k)
               /\ request_text = "xyz purple elephant" => e = EmptyDict
               /\ request_text = "Find 3 rows in users from orders this week last week"
                     => e = [table |-> "orders", time_period |-> "last_week", number |-> 3]

\* C16 witness: in a text where "in users" precedes "from orders" and "this week"
\* precedes "last week", the local strategy took orders and last_week.
C16_Witness ==
    /\ pc = "understood" /\ Ran("patterns")
    /\ request_text = "Find 3 rows in users from orders this week last week"
    /\ nlu_result.entities["table"] = "orders"
    /\ nlu_result.entities["time_period"] = "last_week"

\* C17: in every Understanding process_text returns, by the remote path as by the
\* local one, the entity keys are among table, time_period and number, a
\* time_period is one of the six fixed values, a number is a non-negative integer,
\* and no key is present with an empty value.
C17_EntityMapWellFormed ==
    pc = "understood"
        => LET e == nlu_result.entities
           IN  /\ DOMAIN e \subseteq {"table", "time_period", "number"}
               /\ "time_period" \in DOMAIN e
                     => \E k \in 1..Len(TimeOrder) : e["time_period"] = TimeOrder[k]
               /\ "number" \in DOMAIN e => e["number"] \in Nat
               /\ "table" \in DOMAIN e => e["table"] # ""

\* the step of the handler a call belongs to: 1 process_text, 2 generate_sql,
\* 3 execute_query, 4 generate_response
StepOf(name) ==
    IF name \in {"detect_intent", "patterns"} THEN 1
    ELSE IF name \in {"generate_content", "templates"} THEN 2
    ELSE IF name \in {"execute_query", "session_factory", "session.execute"} THEN 3
    ELSE IF name = "generate_response" THEN 4
    ELSE 0

\* the moves of the text-query handler from one step to the next
HandlerMoves ==
    {<<"none", "received">>, <<"responded", "received">>, <<"error", "received">>,
     <<"received", "understood">>, <<"understood", "generated">>,
     <<"generated", "executed">>, <<"generated", "error">>, <<"executed", "responded">>}

\* what execute_query raises
ExecuteQueryErrors == {"Database not connected", "DBAPIError"}

\* the state part of C13
C13_ErrorOnlyFromExecuteQuery ==
    handler = "text"
        => /\ \A i, j \in 1..Len(calls) : i < j => StepOf(calls[i]) <= StepOf(calls[j])
           /\ raised # "" <=> pc = "error"
           /\ pc = "error"
                 => /\ raised \in ExecuteQueryErrors
                    /\ Ran("execute_query")
                    /\ ~Ran("generate_response")
                    /\ message = ""
                    /\ query_result = NoResult
           /\ pc = "responded"
                 => /\ Ran("execute_query") /\ Ran("generate_response")
                    /\ message # ""

\* C13: a text request goes through process_text, generate_sql, execute_query and
\* generate_response in this order; it ends in an error only when execute_query
\* raised, whatever the remote classifier, the generative backend and
\* summarization did, and then nothing is summarized and no message is produced.
C13_HandlerOrder ==
    /\ []C13_ErrorOnlyFromExecuteQuery
    /\ [][(handler' = "text" /\ pc' # pc) => <<pc, pc'>> \in HandlerMoves]_vars

\* C13 witness: both remote backends failed, the request went on to execute_query,
\* and the error of the database is the one reported.
C13_Witness ==
    /\ handler = "text" /\ pc = "error"
    /\ dialogflow_reply.raises /\ gemini_reply.raises
    /\ raised = "DBAPIError"
    /\ message = ""

\* C20: is_connected is false on a new manager; it becomes true only by a connect
\* that returns; a connect that fails raises and leaves it false; execute_query
\* called while it is false raises "Database not connected" without opening a
\* session or executing anything, so a statement runs only while connected.
C20_RunsOnlyWhileConnected ==
    /\ [](/\ pc = "init" => ~IsConnected(manager)
          /\ pc = "connect" => (raised # "" <=> ~IsConnected(manager))
          /\ (pc = "execute_query" /\ ~IsConnected(manager))
                => /\ raised = "Database not connected"
                   /\ calls = <<>>
                   /\ query_result = NoResult
          /\ (pc = "execute_query" /\ calls # <<>>) => IsConnected(manager))
    /\ [][(~connected /\ connected') => (pc' = "connect" /\ raised' = "")]_vars

\* C20 witness: execute_query was called on a manager that has a session factory
\* and is not connected, and was rejected.
C20_Witness ==
    /\ pc = "execute_query"
    /\ session_factory = "factory" /\ ~connected
    /\ sql_query = "DELETE FROM users"
    /\ raised = "Database not connected"
    /\ calls = <<>>

\* how many times name was called in the current request
TimesCalled(name) == Cardinality({i \in 1..Len(calls) : calls[i] = name})

\* the generative backend was called and gave no statement generate_sql accepts
GenerativeFailed == gemini_reply.raises \/ ~PassesValidation(Strip(gemini_reply.text))

\* C18: in one request detect_intent and generate_content are each called at most
\* once, and only when their client exists; the local classifier runs exactly when
\* the remote one was skipped or failed, the template strategy exactly when the
\* generative one was skipped or failed, each once and after the failed call; what
\* the request gets is built from its own text and its own backend answers.
C18_FallbackChainOnce ==
    /\ \A name \in {"detect_intent", "patterns", "generate_content", "templates"} :
          TimesCalled(name) <= 1
    /\ Ran("detect_intent") => dialogflow_client = "client" /\ dialogflow_reply.called
    /\ Ran("generate_content") => gemini_model = "model" /\ gemini_reply.called
    /\ (Understood /\ dialogflow_client # "unset")
          => /\ Ran("detect_intent") <=> dialogflow_client = "client"
             /\ Ran("patterns") <=> (dialogflow_client = "None" \/ dialogflow_reply.raises)
    /\ (pc = "generated" /\ gemini_model # "unset")
          => /\ Ran("generate_content") <=> gemini_model = "model"
             /\ Ran("templates") <=> (gemini_model = "None" \/ GenerativeFailed)
    /\ \A i, j \in 1..Len(calls) :
          (/\ calls[i] \in {"patterns", "templates"}
           /\ calls[j] = (IF calls[i] = "patterns" THEN "detect_intent" ELSE "generate_content"))
             => j < i
    /\ Understood
          => /\ nlu_result.original_text = request_text
             /\ (Ran("detect_intent") /\ ~Ran("patterns"))
                   => /\ nlu_result.intent = dialogflow_reply.intent
                      /\ nlu_result.entities = dialogflow_reply.entities
    /\ (pc = "generated" /\ Ran("generate_content") /\ ~Ran("templates"))
          => sql_query = Strip(gemini_reply.text)

\* C18 witness: a request in which both remote candidates failed; each was called
\* once and was followed by its local substitute.
C18_Witness ==
    /\ handler = "text" /\ pc = "generated"
    /\ dialogflow_reply.raises /\ gemini_reply.raises
    /\ calls = <<"detect_intent", "patterns", "generate_content", "templates">>

\* sql_query was passed to execute_query in the current request
PassedToExecuteQuery == pc \in {"executed", "error"} /\ Ran("execute_query")

\* the leading keyword of the statement is INSERT, UPDATE or DELETE
Mutating(statement) == ToUpper(FirstToken(statement)) \in {"INSERT", "UPDATE", "DELETE"}

\* C19: whichever endpoint the request came through, a statement whose leading
\* keyword is INSERT, UPDATE or DELETE is passed to execute_query only when
\* generate_content was called in this request and the statement is the text it
\* returned (surrounding whitespace removed); on a processor without generative
\* backend every statement passed to execute_query begins with SELECT, whatever
\* the Understanding.
C19_MutationsOnlyFromGenerativeBackend ==
    PassedToExecuteQuery
        => /\ Mutating(sql_query)
                 => /\ gemini_model = "model" /\ Ran("generate_content")
                    /\ gemini_reply.called /\ ~gemini_reply.raises
                    /\ sql_query = Strip(gemini_reply.text)
                    /\ Mutating(gemini_reply.text)
           /\ gemini_model # "model" => StartsWith(sql_query, "SELECT")

\* C19 witness: a DELETE the generative backend returned for a request the
\* classifier did not label delete_data was passed to execute_query and ran.
C19_Witness ==
    /\ pc = "executed"
    /\ nlu_result.intent # "delete_data"
    /\ gemini_reply.text = "  delete from users where id = 1 \n"
    /\ sql_query = "delete from users where id = 1"
    /\ Ran("session.execute")
    /\ query_result = PyList(<<PyDict([affected_rows |-> 1])>>)

\* what handler r produces when it runs alone on its text with the answers it got
AloneUnderstanding(r) ==
    ProcessText(dialogflow_client, inflight[r].request_text, inflight[r].dialogflow_reply)

AloneSql(r) == GenerateSql(gemini_model, AloneUnderstanding(r), inflight[r].gemini_reply)

AloneMessage(r) == GenerateResponse(AloneUnderstanding(r), inflight[r].query_result)

\* the state part of C14
C14_SameAsAlone ==
    \A r \in Requests :
        /\ inflight[r].pc = "understood" => inflight[r].nlu_result = AloneUnderstanding(r)
        /\ inflight[r].pc = "generated" => inflight[r].sql_query = AloneSql(r)
        /\ inflight[r].pc = "responded" => inflight[r].message = AloneMessage(r)

\* a step of handler r leaves what it had produced before as it was
KeepsProduced(r) ==
    /\ inflight[r].pc # "none" => inflight'[r].request_text = inflight[r].request_text
    /\ inflight[r].pc \notin {"none", "received", "in_detect_intent"}
          => /\ inflight'[r].nlu_result = inflight[r].nlu_result
             /\ inflight'[r].dialogflow_reply = inflight[r].dialogflow_reply
    /\ inflight[r].pc \in {"generated", "executed", "error", "responded"}
          => /\ inflight'[r].sql_query = inflight[r].sql_query
             /\ inflight'[r].gemini_reply = inflight[r].gemini_reply

\* C14: however the steps of two requests handled at once interleave, with either
\* suspended inside detect_intent or generate_content while the other runs, the
\* Understanding, the statement and the message of each are those the request gets
\* alone with the same answers; a step changes nothing of the processor or the
\* manager and nothing of the other request.
C14_ConcurrentRequestsIndependent ==
    /\ []C14_SameAsAlone
    /\ [][/\ UNCHANGED service
          /\ \E r \in Requests :
                /\ inflight'[Other(r)] = inflight[Other(r)]
                /\ KeepsProduced(r)]_vars

\* C14 witness: two requests with different texts both answered, each having run
\* while the other was suspended in a backend call, with different statements.
C14_Witness ==
    /\ \A r \in Requests : inflight[r].pc = "responded" /\ inflight[r].interleaved
    /\ inflight[1].request_text # inflight[2].request_text
    /\ inflight[1].sql_query = "UPDATE t SET a = 1"
    /\ inflight[2].sql_query # inflight[1].sql_query
    /\ inflight[1].nlu_result # inflight[2].nlu_result

\* C21: once disconnect has returned, also when disposing the engine failed,
\* is_connected is false, and an execute_query that follows it is rejected with
\* "Database not connected" without touching the database; disconnect never raises.
C21_DisconnectAlwaysDisconnects ==
    /\ [](pc = "disconnect" => (~IsConnected(manager) /\ raised = ""))
    /\ [][(pc = "disconnect" /\ pc' = "execute_query")
             => (raised' = "Database not connected" /\ calls' = <<>>)]_vars

====
